---- MODULE Spec2Model ----
(***************************************************************************)
(* Model of the Deribit backtest broker                                    *)
(* (src/brokers/deribit-sim-broker/simbroker.go): market-order matching,   *)
(* position and balance accounting, and the order registry.                *)
(*                                                                         *)
(* float64 values are modelled as exact rationals <<n, d>> in lowest terms *)
(* with d > 0; <<0, 0>> is NaN (the result of 0/0).  Rounding error of the *)
(* binary representation is not modelled.                                  *)
(***************************************************************************)
EXTENDS Integers, Sequences, FiniteSets, TLC

VARIABLES balance, orders, openOrders, historyOrders, positions, nextId, last,
          ledger

vars == <<balance, orders, openOrders, historyOrders, positions, nextId, last,
          ledger>>

(***************************************************************************)
(* float64 arithmetic                                                      *)
(***************************************************************************)
IAbs(i) == IF i < 0 THEN -i ELSE i

RECURSIVE Gcd(_, _)
Gcd(a, b) == IF b = 0 THEN a ELSE Gcd(b, a % b)

NaN == <<0, 0>>

IsNaN(x) == x[2] = 0

\* the float64 with value n/d (d # 0), or NaN for 0/0
Norm(n, d) ==
  IF d = 0 THEN NaN
  ELSE LET g == Gcd(IAbs(n), IAbs(d))
           s == IF d < 0 THEN -1 ELSE 1
       IN  <<s * (n \div g), s * (d \div g)>>

R(i) == <<i, 1>>

Zero == R(0)

Lcm(a, b) == (a \div Gcd(a, b)) * b

FAdd(x, y) ==
  IF IsNaN(x) \/ IsNaN(y) THEN NaN
  ELSE LET l == Lcm(x[2], y[2])
       IN  Norm(x[1] * (l \div x[2]) + y[1] * (l \div y[2]), l)

FNeg(x) == <<-x[1], x[2]>>

FSub(x, y) == FAdd(x, FNeg(y))

FMul(x, y) ==
  IF IsNaN(x) \/ IsNaN(y) THEN NaN
  ELSE LET g1 == Gcd(IAbs(x[1]), y[2])
           g2 == Gcd(IAbs(y[1]), x[2])
       IN  Norm((x[1] \div g1) * (y[1] \div g2), (x[2] \div g2) * (y[2] \div g1))

\* x / y; 0/0 is NaN.  A non-zero value is never divided by zero here: quotes
\* are positive and a non-flat position has a non-zero average price.
FDiv(x, y) ==
  IF IsNaN(x) \/ IsNaN(y) \/ y[1] = 0 THEN NaN
  ELSE FMul(x, <<(IF y[1] < 0 THEN -1 ELSE 1) * y[2], IAbs(y[1])>>)

\* math.Abs
FAbs(x) == <<IAbs(x[1]), x[2]>>

\* x < y, false when either is NaN
FLt(x, y) ==
  /\ ~IsNaN(x)
  /\ ~IsNaN(y)
  /\ LET l == Lcm(x[2], y[2])
     IN  x[1] * (l \div x[2]) < y[1] * (l \div y[2])

FGt(x, y) == FLt(y, x)

\* x == y, false when either is NaN
FEq(x, y) == ~IsNaN(x) /\ ~IsNaN(y) /\ x = y

\* x != y, true when either is NaN
FNe(x, y) == ~FEq(x, y)

\* Go's int(x): truncation toward zero
ToInt(x) ==
  IF x[1] >= 0 THEN x[1] \div x[2] ELSE -((-x[1]) \div x[2])

\* Go's a % b for b > 0: the remainder takes the sign of a
GoRem(a, b) == IF a >= 0 THEN a % b ELSE -((-a) % b)

(***************************************************************************)
(* Program constants and the bounded inputs                                *)
(***************************************************************************)
PositionSizeLimit == 100000

\* calls of PlaceOrder in one run (each takes one id from util2.NextID)
MaxOrders == 2

Buy == "Buy"
Sell == "Sell"

OrderTypeMarket == "Market"
OrderTypeLimit == "Limit"
\* an OrderType value that is neither market nor limit
OrderTypeOther == "Other"

OrderStatusNew == "New"
OrderStatusPartiallyFilled == "PartiallyFilled"

NoErr == "nil"
ErrInvalidSize == "Invalid size - not multiple of contract size ($10)"
ErrPositionLimit == "Rejected, maximum size of future position is $1,000,000"
ErrMaxAmount == "Rejected, maximum size of future position is maxAmount"
ErrLimitUnsupported == "limit orders not supported"
ErrNotFound == "not found"

\* the symbols queried, and the symbol orders are placed on
Symbols == {"BTC-PERPETUAL", "ETH-PERPETUAL"}
OrderSymbols == {"BTC-PERPETUAL"}
Currencies == {"BTC", "ETH"}
Directions == {Buy, Sell}
OrderTypes == {OrderTypeMarket, OrderTypeLimit, OrderTypeOther}

\* requested amounts: zero, one contract, a non-multiple of 10, a size near
\* the position limit, and a fractional amount whose integer part is the limit
Amounts == {R(0), R(10), R(15), R(90000), <<200001, 2>>}

\* the amounts requested with an order type: the matching of the other types
\* never reads the amount
AmountsOf(orderType) ==
  IF orderType = OrderTypeMarket THEN Amounts ELSE {R(10), R(15)}

\* the quotes data.GetTick() may return
Ticks == {[Bid |-> R(80), Ask |-> R(100)], [Bid |-> R(125), Ask |-> R(160)]}

\* requested limit prices
LimitPrices == {R(100)}

\* NewBroker's cash and takerFeeRate arguments.  With cash 10 the margin cap
\* is 80,000 to 160,000 over the quotes, so the large amounts are rejected at
\* some prices and filled at others; a fee rate of 1/100 makes the balance
\* before and after the fee give different caps, and keeps the exact
\* fractions within TLC's 32-bit integers.
Cash == {R(10)}
takerFeeRate == <<1, 100>>

(***************************************************************************)
(* models.Position, models.Order and models.CalcPnl                        *)
(***************************************************************************)
Side(position) ==
  IF FGt(position.Size, Zero) THEN Buy
  ELSE IF FLt(position.Size, Zero) THEN Sell
  ELSE "None"

IsOpen(order) == order.Status \in {OrderStatusNew, OrderStatusPartiallyFilled}

\* realized PnL of an inverse contract, settled in the base currency
CalcPnl(side, quantity, entryPrice, exitPrice) ==
  IF FEq(quantity, Zero) THEN Zero
  ELSE IF side = Buy
    THEN FSub(FDiv(quantity, entryPrice), FDiv(quantity, exitPrice))
  ELSE IF side = Sell
    THEN FSub(FDiv(quantity, exitPrice), FDiv(quantity, entryPrice))
  ELSE Zero

\* the zero value of Order
ZeroOrder ==
  [ID |-> 0, Symbol |-> "", Price |-> Zero, Amount |-> Zero, AvgPrice |-> Zero,
   FilledAmount |-> Zero, Direction |-> "", Type |-> "", PostOnly |-> FALSE,
   ReduceOnly |-> FALSE, Status |-> ""]

(***************************************************************************)
(* The broker.  An operator below takes and returns the broker state       *)
(* b = [balance, positions, debits, pnls]; debits and pnls log the values  *)
(* passed to addBalance and addPnl during the current call.                *)
(***************************************************************************)
addBalance(b, value) ==
  [b EXCEPT !.balance = FAdd(@, value), !.debits = Append(@, value)]

addPnl(b, pnl) ==
  [b EXCEPT !.balance = FAdd(@, pnl), !.pnls = Append(@, pnl)]

FlatPosition == [Size |-> Zero, AvgPrice |-> Zero]

\* the position table after getPosition(symbol): a missing record is created
getPosition(ps, symbol) ==
  IF symbol \in DOMAIN ps THEN ps ELSE ps @@ (symbol :> FlatPosition)

\* newAvgPrice with a size-weighted arithmetic mean of the prices
newAvgPriceArithmetic(position, size, price) ==
  FDiv(FAdd(FMul(FAbs(position.Size), position.AvgPrice), FMul(FAbs(size), price)),
       FAbs(FAdd(position.Size, size)))

\* the average entry price after adding size at price to position
newAvgPrice(position, size, price) ==
  LET positionCost ==
        IF FNe(position.Size, Zero) /\ FNe(position.AvgPrice, Zero)
        THEN FDiv(FAbs(position.Size), position.AvgPrice)
        ELSE Zero
      newPositionCost == FDiv(FAbs(size), price)
      totalCost == FAdd(positionCost, newPositionCost)
      totalSize == FAbs(FAdd(position.Size, size))
  IN  FDiv(totalSize, totalCost)

addPosition(b, symbol, size, price) ==
  LET position == b.positions[symbol] IN
  IF \/ FLt(position.Size, Zero) /\ FGt(size, Zero)
     \/ FGt(position.Size, Zero) /\ FLt(size, Zero)
  THEN b
  ELSE [b EXCEPT !.positions[symbol] =
          [Size |-> FAdd(position.Size, size),
           AvgPrice |-> newAvgPrice(position, size, price)]]

\* closeOver that keeps the closed position's average price
closeOverKeepAvg(b, symbol, size, price) ==
  LET position == b.positions[symbol]
      pnl == CalcPnl(Side(position), FAbs(position.Size), position.AvgPrice, price)
  IN  [addPnl(b, pnl) EXCEPT !.positions[symbol] =
         [Size |-> FAdd(position.Size, size), AvgPrice |-> position.AvgPrice]]

\* closePosition, remaining > 0: close the position and open the remainder
closeOver(b, symbol, size, price) ==
  LET position == b.positions[symbol]
      pnl == CalcPnl(Side(position), FAbs(position.Size), position.AvgPrice, price)
  IN  [addPnl(b, pnl) EXCEPT !.positions[symbol] =
         [Size |-> FAdd(position.Size, size), AvgPrice |-> price]]

\* closeExact that does not reset the average price
closeExactKeepAvg(b, symbol, size, price) ==
  LET position == b.positions[symbol]
      pnl == CalcPnl(Side(position), FAbs(size), position.AvgPrice, price)
  IN  [addPnl(b, pnl) EXCEPT !.positions[symbol] =
         [Size |-> Zero, AvgPrice |-> position.AvgPrice]]

\* closePosition, remaining == 0: close the position
closeExact(b, symbol, size, price) ==
  LET position == b.positions[symbol]
      pnl == CalcPnl(Side(position), FAbs(size), position.AvgPrice, price)
  IN  [addPnl(b, pnl) EXCEPT !.positions[symbol] =
         [Size |-> Zero, AvgPrice |-> Zero]]

\* closePosition, remaining < 0: close part of the position
closePartial(b, symbol, size, price) ==
  LET position == b.positions[symbol]
      pnl == CalcPnl(Side(position), FAbs(position.Size), position.AvgPrice, price)
  IN  [addPnl(b, pnl) EXCEPT !.positions[symbol] =
         [Size |-> FAdd(position.Size, size), AvgPrice |-> position.AvgPrice]]

closePosition(b, symbol, size, price) ==
  LET position == b.positions[symbol] IN
  IF FEq(position.Size, Zero) THEN b
  ELSE IF \/ FGt(position.Size, Zero) /\ FGt(size, Zero)
          \/ FLt(position.Size, Zero) /\ FLt(size, Zero)
  THEN b
  ELSE
    LET remaining == FSub(FAbs(size), FAbs(position.Size)) IN
    IF FGt(remaining, Zero) THEN closeOver(b, symbol, size, price)
    ELSE IF FEq(remaining, Zero) THEN closeExact(b, symbol, size, price)
    ELSE closePartial(b, symbol, size, price)

\* updatePosition that always adds
updatePositionAddOnly(b, symbol, size, price) ==
  addPosition([b EXCEPT !.positions = getPosition(b.positions, symbol)],
              symbol, size, price)

updatePosition(b, symbol, size, price) ==
  LET b1 == [b EXCEPT !.positions = getPosition(b.positions, symbol)]
      position == b1.positions[symbol]
  IN  IF \/ FGt(position.Size, Zero) /\ FLt(size, Zero)
         \/ FLt(position.Size, Zero) /\ FGt(size, Zero)
      THEN closePosition(b1, symbol, size, price)
      ELSE addPosition(b1, symbol, size, price)

\* maxAmount without the 100x leverage
maxAmountNoLeverage(margin, price) == FMul(margin, price)

\* the margin cap of a market order: margin * 100 * price
maxAmount(margin, price) == FMul(FMul(margin, R(100)), price)

\* takerFee of a linear contract: size * price * rate
takerFeeLinear(size, price) == FMul(FMul(size, price), takerFeeRate)

\* the taker fee of a fill
takerFee(size, price) == FMul(FDiv(size, price), takerFeeRate)

\* fillMarket that debits the fee before the margin check
fillMarketFeeFirst(b, order, price, size) ==
  LET b1 == addBalance(b, FNeg(FMul(FDiv(order.Amount, price), takerFeeRate))) IN
  IF FGt(order.Amount, FMul(FMul(b.balance, R(100)), price))
  THEN [err |-> ErrMaxAmount, b |-> b1]
  ELSE [err |-> NoErr, b |-> updatePosition(b1, order.Symbol, size, price)]

\* one direction's branch of matchMarketOrder, filling the signed size at
\* price: [err, b]
fillMarket(b, order, price, size) ==
  IF FGt(order.Amount, maxAmount(b.balance, price))
  THEN [err |-> ErrMaxAmount, b |-> b]
  ELSE [err |-> NoErr,
        b |-> updatePosition(addBalance(b, FNeg(takerFee(order.Amount, price))),
                             order.Symbol, size, price)]

matchMarketOrder(b, order, t) ==
  IF ~IsOpen(order) THEN [err |-> NoErr, b |-> b]
  ELSE IF GoRem(ToInt(order.Amount), 10) # 0
  THEN [err |-> ErrInvalidSize, b |-> b]
  ELSE
    LET b1 == [b EXCEPT !.positions = getPosition(b.positions, order.Symbol)]
        position == b1.positions[order.Symbol]
    IN  IF \/ ToInt(FAdd(position.Size, order.Amount)) > PositionSizeLimit
           \/ ToInt(FSub(position.Size, order.Amount)) < -PositionSizeLimit
        THEN [err |-> ErrPositionLimit, b |-> b1]
        ELSE IF order.Direction = Buy
          THEN fillMarket(b1, order, t.Ask, order.Amount)
        ELSE IF order.Direction = Sell
          THEN fillMarket(b1, order, t.Bid, FNeg(order.Amount))
        ELSE [err |-> NoErr, b |-> b1]

matchLimitOrder(b, order, t) ==
  IF ~IsOpen(order) THEN [err |-> NoErr, b |-> b]
  ELSE [err |-> ErrLimitUnsupported, b |-> b]

matchOrder(b, order, t) ==
  IF order.Type = OrderTypeMarket THEN matchMarketOrder(b, order, t)
  ELSE IF order.Type = OrderTypeLimit THEN matchLimitOrder(b, order, t)
  ELSE [err |-> NoErr, b |-> b]

(***************************************************************************)
(* State                                                                   *)
(*   balance        b.balance                                              *)
(*   orders         b.orders: id -> Order                                  *)
(*   openOrders     the keys of b.openOrders (its values are the same      *)
(*   historyOrders  pointers as in b.orders); likewise b.historyOrders     *)
(*   positions      b.positions: symbol -> [Size, AvgPrice]                *)
(*   nextId         the next value of util2.NextID                         *)
(*   last           the last call: its arguments, the state before it and  *)
(*                  what it returned                                       *)
(*   ledger         NewBroker's cash, and the sums of the values passed to *)
(*                  addBalance and to addPnl since                         *)
(***************************************************************************)
NewBroker(cash) ==
  /\ balance = cash
  /\ orders = <<>>
  /\ openOrders = {}
  /\ historyOrders = {}
  /\ positions = <<>>

Init ==
  /\ \E cash \in Cash : NewBroker(cash)
  /\ nextId = 1
  /\ last = [op |-> "NewBroker"]
  /\ ledger = [cash |-> balance, debits |-> Zero, pnls |-> Zero]

\* the sum of a sequence of float64 values
RECURSIVE FSum(_)
FSum(seq) == IF seq = <<>> THEN Zero ELSE FAdd(Head(seq), FSum(Tail(seq)))

\* fileOrder that files the order in both sets
fileOrderBoth(open, history, order) ==
  [open |-> open \cup {order.ID}, history |-> history \cup {order.ID}]

\* the open and historical sets after PlaceOrder files the matched order
fileOrder(open, history, order) ==
  IF IsOpen(order)
  THEN [open |-> open \cup {order.ID}, history |-> history]
  ELSE [open |-> open, history |-> history \cup {order.ID}]

PlaceOrder(symbol, direction, orderType, price, amount, postOnly, reduceOnly, t) ==
  /\ nextId <= MaxOrders
  /\ LET id == nextId
         order == [ID |-> id, Symbol |-> symbol, Price |-> price, Amount |-> amount,
                   AvgPrice |-> Zero, FilledAmount |-> Zero, Direction |-> direction,
                   Type |-> orderType, PostOnly |-> postOnly,
                   ReduceOnly |-> reduceOnly, Status |-> OrderStatusNew]
         m == matchOrder([balance |-> balance, positions |-> positions,
                          debits |-> <<>>, pnls |-> <<>>], order, t)
     IN  /\ nextId' = nextId + 1
         /\ balance' = m.b.balance
         /\ positions' = m.b.positions
         /\ IF m.err # NoErr
            THEN UNCHANGED <<orders, openOrders, historyOrders>>
            ELSE /\ openOrders' = fileOrder(openOrders, historyOrders, order).open
                 /\ historyOrders' =
                      fileOrder(openOrders, historyOrders, order).history
                 /\ orders' = (id :> order) @@ orders
         /\ ledger' = [ledger EXCEPT !.debits = FAdd(@, FSum(m.b.debits)),
                                     !.pnls = FAdd(@, FSum(m.b.pnls))]
         /\ last' = [op |-> "PlaceOrder", order |-> order, tick |-> t,
                     err |-> m.err, result |-> ZeroOrder,
                     balance |-> balance, positions |-> positions,
                     debits |-> m.b.debits, pnls |-> m.b.pnls]

\* GetAccountSummary that books the unrealized PnL into the balance
GetAccountSummaryBooksPnl(currency, t) ==
  LET symbol == IF currency = "BTC" THEN "BTC-PERPETUAL"
                ELSE IF currency = "ETH" THEN "ETH-PERPETUAL"
                ELSE ""
      ps == getPosition(positions, symbol)
      position == ps[symbol]
      side == Side(position)
      price == IF side = Buy THEN t.Ask ELSE IF side = Sell THEN t.Bid ELSE Zero
      pnl == CalcPnl(side, FAbs(position.Size), position.AvgPrice, price)
  IN  /\ positions' = ps
      /\ balance' = FAdd(balance, pnl)
      /\ last' = [op |-> "GetAccountSummary", currency |-> currency, tick |-> t,
                  err |-> NoErr, positions |-> positions, balance |-> balance,
                  result |-> [Balance |-> balance, Pnl |-> pnl]]
      /\ UNCHANGED <<orders, openOrders, historyOrders, nextId, ledger>>

\* result.Equity is result.Balance + result.Pnl and is not kept
GetAccountSummary(currency, t) ==
  LET symbol == IF currency = "BTC" THEN "BTC-PERPETUAL"
                ELSE IF currency = "ETH" THEN "ETH-PERPETUAL"
                ELSE ""
      ps == getPosition(positions, symbol)
      position == ps[symbol]
      side == Side(position)
      price == IF side = Buy THEN t.Ask ELSE IF side = Sell THEN t.Bid ELSE Zero
      pnl == CalcPnl(side, FAbs(position.Size), position.AvgPrice, price)
  IN  /\ positions' = ps
      /\ last' = [op |-> "GetAccountSummary", currency |-> currency, tick |-> t,
                  err |-> NoErr, positions |-> positions, balance |-> balance,
                  result |-> [Balance |-> balance, Pnl |-> pnl]]
      /\ UNCHANGED <<balance, orders, openOrders, historyOrders, nextId, ledger>>

GetOrderBook(symbol, t) ==
  /\ last' = [op |-> "GetOrderBook", symbol |-> symbol, tick |-> t, err |-> NoErr,
              positions |-> positions, balance |-> balance,
              result |-> [Asks |-> <<t.Ask>>, Bids |-> <<t.Bid>>]]
  /\ UNCHANGED <<balance, orders, openOrders, historyOrders, positions, nextId,
                 ledger>>

GetOpenOrders(symbol) ==
  /\ last' = [op |-> "GetOpenOrders", symbol |-> symbol, err |-> NoErr,
              positions |-> positions, balance |-> balance,
              result |-> {orders[id] : id \in {i \in openOrders : orders[i].Symbol = symbol}}]
  /\ UNCHANGED <<balance, orders, openOrders, historyOrders, positions, nextId,
                 ledger>>

GetOrder(symbol, id) ==
  /\ last' = [op |-> "GetOrder", symbol |-> symbol, id |-> id,
              positions |-> positions, balance |-> balance,
              err |-> IF id \in DOMAIN orders THEN NoErr ELSE ErrNotFound,
              result |-> IF id \in DOMAIN orders THEN orders[id] ELSE ZeroOrder]
  /\ UNCHANGED <<balance, orders, openOrders, historyOrders, positions, nextId,
                 ledger>>

\* GetPosition that looks the position up through getPosition
GetPositionCreates(symbol) ==
  /\ positions' = getPosition(positions, symbol)
  /\ last' = [op |-> "GetPosition", symbol |-> symbol,
              positions |-> positions, balance |-> balance,
              err |-> IF symbol \in DOMAIN positions THEN NoErr ELSE ErrNotFound,
              result |-> getPosition(positions, symbol)[symbol]]
  /\ UNCHANGED <<balance, orders, openOrders, historyOrders, nextId, ledger>>

GetPosition(symbol) ==
  /\ last' = [op |-> "GetPosition", symbol |-> symbol,
              positions |-> positions, balance |-> balance,
              err |-> IF symbol \in DOMAIN positions THEN NoErr ELSE ErrNotFound,
              result |-> IF symbol \in DOMAIN positions THEN positions[symbol]
                         ELSE FlatPosition]
  /\ UNCHANGED <<balance, orders, openOrders, historyOrders, positions, nextId,
                 ledger>>

Next ==
  \/ \E symbol \in OrderSymbols, direction \in Directions, orderType \in OrderTypes,
        price \in LimitPrices, t \in Ticks :
       \E amount \in AmountsOf(orderType) :
         PlaceOrder(symbol, direction, orderType, price, amount, FALSE, FALSE, t)
  \/ \E currency \in Currencies, t \in Ticks : GetAccountSummary(currency, t)
  \/ \E symbol \in OrderSymbols, t \in Ticks : GetOrderBook(symbol, t)
  \/ \E symbol \in Symbols : GetOpenOrders(symbol)
  \/ \E symbol \in OrderSymbols, id \in 1..MaxOrders : GetOrder(symbol, id)
  \/ \E symbol \in Symbols : GetPosition(symbol)

Spec == Init /\ [][Next]_vars

(***************************************************************************)
(* The last call, as the properties below read it                          *)
(***************************************************************************)
LastPlaceOrder == last.op = "PlaceOrder"

LastMarket == LastPlaceOrder /\ last.order.Type = OrderTypeMarket

LastAccepted == last.err = NoErr

\* the position of the order's symbol before and after the call
OldPosition ==
  IF last.order.Symbol \in DOMAIN last.positions
  THEN last.positions[last.order.Symbol]
  ELSE FlatPosition

NewPosition ==
  IF last.order.Symbol \in DOMAIN positions
  THEN positions[last.order.Symbol]
  ELSE FlatPosition

\* +amount for a buy, -amount for a sell
SignedAmount ==
  IF last.order.Direction = Buy THEN last.order.Amount ELSE FNeg(last.order.Amount)

\* the ask for a buy, the bid for a sell
FillPrice == IF last.order.Direction = Buy THEN last.tick.Ask ELSE last.tick.Bid

\* the order is on the other side of a non-flat position
Opposes ==
  \/ FGt(OldPosition.Size, Zero) /\ FLt(SignedAmount, Zero)
  \/ FLt(OldPosition.Size, Zero) /\ FGt(SignedAmount, Zero)

\* amount / price x takerFeeRate
ExpectedFee == FMul(FDiv(last.order.Amount, FillPrice), takerFeeRate)

\* the realized PnL credited during the call
RealizedPnl == IF last.pnls = <<>> THEN Zero ELSE last.pnls[1]

\* x is an integer multiple of 10
IsMultipleOf10(x) == x[2] = 1 /\ x[1] % 10 = 0

FLe(x, y) == FLt(x, y) \/ FEq(x, y)

\* the other position records are as before the call, and a record created by
\* the call is flat
OtherPositionsKept ==
  /\ DOMAIN last.positions \subseteq DOMAIN positions
  /\ \A s \in DOMAIN positions :
       s # last.order.Symbol =>
         positions[s] = IF s \in DOMAIN last.positions THEN last.positions[s]
                        ELSE FlatPosition

(***************************************************************************)
(* C1: every position satisfies |size| <= 100,000, and a market order      *)
(* whose fill would take the position beyond 100,000 in magnitude is       *)
(* rejected with the position's size and average price as before the call. *)
(***************************************************************************)
C1_PositionWithinLimit ==
  /\ \A s \in DOMAIN positions :
       FLe(FAbs(positions[s].Size), R(PositionSizeLimit))
  /\ (LastMarket /\ FGt(FAbs(FAdd(OldPosition.Size, SignedAmount)),
                        R(PositionSizeLimit)))
       => (last.err # NoErr /\ NewPosition = OldPosition)

(***************************************************************************)
(* C2: an accepted market order moves the position size by +amount (buy)   *)
(* or -amount (sell) in every branch, and none debits a fee while leaving  *)
(* the size unchanged.                                                     *)
(***************************************************************************)
C2_AcceptedFillAppliesDelta ==
  (LastMarket /\ LastAccepted) =>
    /\ NewPosition.Size = FAdd(OldPosition.Size, SignedAmount)
    /\ (Len(last.debits) > 0 /\ last.debits[1] # Zero)
         => NewPosition.Size # OldPosition.Size

C2_Witness ==
  /\ LastMarket /\ LastAccepted /\ Opposes
  /\ last.debits # <<>> /\ last.debits[1] # Zero
  /\ NewPosition.Size = FAdd(OldPosition.Size, SignedAmount)

(***************************************************************************)
(* C3: a partial close (|size| < |oldSize|) credits CalcPnl on the closed  *)
(* quantity |size| with the old average price as entry and the fill price  *)
(* as exit, keeps the average price and sets size to oldSize + size.       *)
(***************************************************************************)
C3_PartialClosePnlOnClosedPortion ==
  (LastMarket /\ LastAccepted /\ Opposes
     /\ FLt(FAbs(SignedAmount), FAbs(OldPosition.Size))) =>
    /\ last.pnls = <<CalcPnl(Side(OldPosition), FAbs(SignedAmount),
                             OldPosition.AvgPrice, FillPrice)>>
    /\ NewPosition.AvgPrice = OldPosition.AvgPrice
    /\ NewPosition.Size = FAdd(OldPosition.Size, SignedAmount)
    /\ Side(NewPosition) = Side(OldPosition)

(***************************************************************************)
(* C4: an over-close (|size| > |oldSize|) leaves a position of the         *)
(* opposite sign and magnitude |size| - |oldSize| at the fill price, and   *)
(* books realized PnL once, on |oldSize| at the old average price.         *)
(***************************************************************************)
C4_OverClose ==
  (LastMarket /\ LastAccepted /\ Opposes
     /\ FGt(FAbs(SignedAmount), FAbs(OldPosition.Size))) =>
    /\ Side(NewPosition) \in {Buy, Sell}
    /\ Side(NewPosition) # Side(OldPosition)
    /\ FAbs(NewPosition.Size) = FSub(FAbs(SignedAmount), FAbs(OldPosition.Size))
    /\ NewPosition.AvgPrice = FillPrice
    /\ last.pnls = <<CalcPnl(Side(OldPosition), FAbs(OldPosition.Size),
                             OldPosition.AvgPrice, FillPrice)>>
    /\ balance = FAdd(FSub(last.balance, ExpectedFee), last.pnls[1])

C4_Witness ==
  /\ LastMarket /\ LastAccepted /\ Opposes
  /\ FGt(FAbs(SignedAmount), FAbs(OldPosition.Size))
  /\ OldPosition.AvgPrice # FillPrice
  /\ NewPosition.AvgPrice = FillPrice

(***************************************************************************)
(* C5: an exact close (|size| = |oldSize|) resets the position to size 0   *)
(* and average price 0 and credits CalcPnl(side, |oldSize|, old average    *)
(* price, fill price) to the balance.                                      *)
(***************************************************************************)
C5_ExactClose ==
  (LastMarket /\ LastAccepted /\ Opposes
     /\ FAbs(SignedAmount) = FAbs(OldPosition.Size)) =>
    /\ NewPosition = [Size |-> Zero, AvgPrice |-> Zero]
    /\ last.pnls = <<CalcPnl(Side(OldPosition), FAbs(OldPosition.Size),
                             OldPosition.AvgPrice, FillPrice)>>
    /\ balance = FAdd(FSub(last.balance, ExpectedFee), last.pnls[1])

C5_Witness ==
  /\ LastMarket /\ LastAccepted /\ Opposes
  /\ FAbs(SignedAmount) = FAbs(OldPosition.Size)
  /\ last.pnls # <<>> /\ last.pnls[1] # Zero
  /\ NewPosition.Size = Zero

(***************************************************************************)
(* C6: a same-direction addition sets the average price to                 *)
(* (|oldSize| + |size|) / (|oldSize|/oldAvgPrice + |size|/price), the cost *)
(* of a flat position being 0; two fills S1 at P1 and S2 at P2 from flat   *)
(* give (S1 + S2) / (S1/P1 + S2/P2).                                       *)
(***************************************************************************)
OldCost ==
  IF OldPosition.Size = Zero THEN Zero
  ELSE FDiv(FAbs(OldPosition.Size), OldPosition.AvgPrice)

\* the last call is the second of two accepted market fills in one direction,
\* both of a positive amount, on a broker that started flat
TwoFills ==
  /\ LastMarket /\ LastAccepted /\ last.order.ID = 2
  /\ 1 \in DOMAIN orders
  /\ orders[1].Type = OrderTypeMarket
  /\ orders[1].Direction = last.order.Direction
  /\ FGt(orders[1].Amount, Zero)
  /\ FGt(last.order.Amount, Zero)

C6_AveragePrice ==
  /\ (LastMarket /\ LastAccepted /\ ~Opposes
        /\ FGt(FAdd(FAbs(OldPosition.Size), FAbs(SignedAmount)), Zero)) =>
       NewPosition.AvgPrice =
         FDiv(FAdd(FAbs(OldPosition.Size), FAbs(SignedAmount)),
              FAdd(OldCost, FDiv(FAbs(SignedAmount), FillPrice)))
  /\ TwoFills =>
       \E t \in Ticks :
         LET P1 == IF last.order.Direction = Buy THEN t.Ask ELSE t.Bid
             S1 == orders[1].Amount
             S2 == last.order.Amount
         IN  /\ OldPosition = [Size |-> IF last.order.Direction = Buy THEN S1
                                        ELSE FNeg(S1),
                               AvgPrice |-> P1]
             /\ NewPosition.AvgPrice =
                  FDiv(FAdd(S1, S2), FAdd(FDiv(S1, P1), FDiv(S2, FillPrice)))

C6_Witness ==
  /\ TwoFills
  /\ OldPosition.AvgPrice # FillPrice
  /\ NewPosition.AvgPrice # FillPrice
  /\ NewPosition.AvgPrice # OldPosition.AvgPrice

(***************************************************************************)
(* C7: an accepted market fill debits the balance once, by                 *)
(* amount / executionPrice x takerFeeRate, with the ask as execution price *)
(* of a buy and the bid of a sell.                                         *)
(***************************************************************************)
C7_FeeDebitedOnce ==
  (LastMarket /\ LastAccepted) =>
    /\ last.debits = <<FNeg(ExpectedFee)>>
    /\ Len(last.pnls) <= 1
    /\ balance = FAdd(FSub(last.balance, ExpectedFee), RealizedPnl)

C7_Witness ==
  /\ LastMarket /\ LastAccepted
  /\ last.order.Direction = Sell
  /\ last.tick.Bid # last.tick.Ask
  /\ ExpectedFee # Zero
  /\ balance = FSub(last.balance, ExpectedFee)

(***************************************************************************)
(* C8: a market order is rejected when its amount exceeds                  *)
(* balance x 100 x executionPrice, the balance being that before the fee;  *)
(* an order that passes the size and position-limit checks and is within   *)
(* the cap is filled.                                                      *)
(***************************************************************************)
MarginCap == FMul(FMul(last.balance, R(100)), FillPrice)

PassesSizeCheck == GoRem(ToInt(last.order.Amount), 10) = 0

PassesLimitCheck ==
  /\ ToInt(FAdd(OldPosition.Size, last.order.Amount)) <= PositionSizeLimit
  /\ ToInt(FSub(OldPosition.Size, last.order.Amount)) >= -PositionSizeLimit

C8_MarginCap ==
  LastMarket =>
    /\ FGt(last.order.Amount, MarginCap) => last.err # NoErr
    /\ (PassesSizeCheck /\ PassesLimitCheck /\ FLe(last.order.Amount, MarginCap)) =>
         /\ last.err = NoErr
         /\ Len(last.debits) = 1
         /\ NewPosition.Size = FAdd(OldPosition.Size, SignedAmount)

\* a fill the cap allows only when it is taken from the balance before the fee
C8_Witness ==
  /\ LastMarket /\ LastAccepted
  /\ FLe(last.order.Amount, MarginCap)
  /\ FGt(last.order.Amount, FMul(FMul(balance, R(100)), FillPrice))

(***************************************************************************)
(* C9: a PlaceOrder call whose amount is not an integer multiple of 10     *)
(* returns an error and fills nothing, whatever the symbol, price,         *)
(* direction, order type and state.                                        *)
(***************************************************************************)
C9_NonMultipleRejected ==
  (LastPlaceOrder /\ ~IsMultipleOf10(last.order.Amount)) =>
    /\ last.err # NoErr
    /\ last.debits = <<>>
    /\ NewPosition = OldPosition

(***************************************************************************)
(* C10: a PlaceOrder call that returns an error leaves the balance and     *)
(* every position's size and average price as before the call; no fee is   *)
(* debited and no PnL credited.                                            *)
(***************************************************************************)
C10_RejectionMutatesNothing ==
  (LastPlaceOrder /\ ~LastAccepted) =>
    /\ balance = last.balance
    /\ last.debits = <<>>
    /\ last.pnls = <<>>
    /\ NewPosition = OldPosition
    /\ OtherPositionsKept

C10_Witness ==
  /\ LastMarket
  /\ last.err = ErrMaxAmount
  /\ OldPosition.Size # Zero
  /\ NewPosition = OldPosition
  /\ balance = last.balance

(***************************************************************************)
(* The order statuses the matching never assigns                           *)
(***************************************************************************)
OrderStatusFilled == "Filled"
OrderStatusCancelled == "Cancelled"
OrderStatusRejected == "Rejected"

\* the statuses of an order that is neither new nor partially filled
TerminalStatuses == {OrderStatusFilled, OrderStatusCancelled, OrderStatusRejected}

(***************************************************************************)
(* C11: when matching returns an error, PlaceOrder returns it and the      *)
(* order is still recorded: it is in the all-orders registry with status   *)
(* rejected and is filed in the historical set.                            *)
(***************************************************************************)
C11_RejectedOrderRecorded ==
  (LastPlaceOrder /\ ~LastAccepted) =>
    /\ last.order.ID \in DOMAIN orders
    /\ orders[last.order.ID].Status = OrderStatusRejected
    /\ last.order.ID \in historyOrders

(***************************************************************************)
(* C12: an accepted market order is recorded with status filled and filled *)
(* amount equal to the requested amount, is filed in the historical set    *)
(* and is not in the open-orders set.                                      *)
(***************************************************************************)
C12_MarketOrderFilledAndHistorical ==
  (LastMarket /\ LastAccepted) =>
    /\ last.order.ID \in DOMAIN orders
    /\ orders[last.order.ID].Status = OrderStatusFilled
    /\ orders[last.order.ID].FilledAmount = last.order.Amount
    /\ last.order.ID \in historyOrders
    /\ last.order.ID \notin openOrders

(***************************************************************************)
(* C13: the Order PlaceOrder returns carries the id, symbol, direction,    *)
(* type, amount and status of the order the call recorded, so GetOrder     *)
(* with the returned id finds an equal order.                              *)
(***************************************************************************)
C13_ReturnedOrderIsRecordedOrder ==
  (LastPlaceOrder /\ LastAccepted) =>
    /\ last.result.ID \in DOMAIN orders
    /\ orders[last.result.ID] = last.result
    /\ last.result.ID = last.order.ID

(***************************************************************************)
(* C14: the balance changes only in an accepted market fill, by the taker  *)
(* fee and the realized PnL; a query, a rejected order, a limit order and  *)
(* (apart from its fee) a fill that only adds leave it unchanged; it       *)
(* always equals the initial cash minus the fees plus the realized PnL.    *)
(***************************************************************************)
C14_BalanceOnlyFeesAndPnl ==
  /\ balance = FAdd(FAdd(ledger.cash, ledger.debits), ledger.pnls)
  /\ (last.op # "NewBroker" /\ balance # last.balance) =>
       /\ LastMarket /\ LastAccepted
       /\ last.debits = <<FNeg(ExpectedFee)>>
       /\ balance = FAdd(FSub(last.balance, ExpectedFee), RealizedPnl)
  /\ (LastMarket /\ LastAccepted /\ ~Opposes) =>
       /\ last.pnls = <<>>
       /\ balance = FSub(last.balance, ExpectedFee)

C14_Witness ==
  /\ last.op = "GetAccountSummary"
  /\ last.result.Pnl # Zero
  /\ ledger.debits # Zero
  /\ ledger.pnls # Zero
  /\ balance = last.balance
  /\ balance = FAdd(FAdd(ledger.cash, ledger.debits), ledger.pnls)

(***************************************************************************)
(* C15: every position has average price 0 when its size is 0 and a        *)
(* defined positive average price when its size is not 0, also after a     *)
(* market order of amount 0 on a flat position.                            *)
(***************************************************************************)
C15_AvgPriceDefinedIffOpen ==
  \A s \in DOMAIN positions :
    /\ positions[s].Size = Zero => positions[s].AvgPrice = Zero
    /\ positions[s].Size # Zero => FGt(positions[s].AvgPrice, Zero)

(***************************************************************************)
(* C16: a PlaceOrder call with an order type that is neither market nor    *)
(* limit returns an error, fills nothing and does not leave the order in   *)
(* the open-orders set.                                                    *)
(***************************************************************************)
C16_UnsupportedTypeRejected ==
  (LastPlaceOrder /\ last.order.Type \notin {OrderTypeMarket, OrderTypeLimit}) =>
    /\ last.err # NoErr
    /\ last.debits = <<>>
    /\ NewPosition = OldPosition
    /\ last.order.ID \notin openOrders

(***************************************************************************)
(* C17: the open-orders set and the historical-orders set are disjoint,    *)
(* their union is the all-orders set, every open order has a non-terminal  *)
(* status and every historical order a terminal one; a filed order is      *)
(* never moved or removed.                                                 *)
(***************************************************************************)
C17_OrderSetsPartition ==
  /\ [](/\ openOrders \cap historyOrders = {}
        /\ openOrders \cup historyOrders = DOMAIN orders
        /\ \A id \in openOrders : orders[id].Status \notin TerminalStatuses
        /\ \A id \in historyOrders : orders[id].Status \in TerminalStatuses)
  /\ [][/\ openOrders \subseteq openOrders'
        /\ historyOrders \subseteq historyOrders'
        /\ \A id \in DOMAIN orders :
             id \in DOMAIN orders' /\ orders'[id] = orders[id]]_vars

C17_Witness ==
  /\ Cardinality(DOMAIN orders) = 2
  /\ openOrders = DOMAIN orders
  /\ historyOrders = {}
  /\ last.op = "GetOpenOrders"
  /\ Cardinality(last.result) = 2

(***************************************************************************)
(* C18: GetOrder with an id that was never recorded and GetPosition with a *)
(* symbol that has no position record return a not-found error and leave   *)
(* the balance, the three order sets and the position records unchanged.   *)
(***************************************************************************)
C18_NotFoundLeavesState ==
  [][/\ \A symbol \in Symbols, id \in 1..MaxOrders :
          (GetOrder(symbol, id) /\ id \notin DOMAIN orders) =>
            /\ last'.err = ErrNotFound
            /\ UNCHANGED <<balance, orders, openOrders, historyOrders, positions>>
     /\ \A symbol \in Symbols :
          (GetPosition(symbol) /\ symbol \notin DOMAIN positions) =>
            /\ last'.err = ErrNotFound
            /\ UNCHANGED <<balance, orders, openOrders, historyOrders, positions>>
    ]_vars

C18_Witness ==
  /\ last.op = "GetPosition"
  /\ last.err = ErrNotFound
  /\ last.symbol \notin DOMAIN positions
  /\ positions = last.positions
  /\ DOMAIN positions # {}
  /\ DOMAIN orders # {}

(***************************************************************************)
(* C19: a market order is rejected for the position limit only if the      *)
(* position it would produce (size + amount for a buy, size - amount for a *)
(* sell) exceeds 100,000 in magnitude; an order that reduces the           *)
(* position's magnitude is never rejected for the position limit.          *)
(***************************************************************************)
C19_LimitFollowsDirection ==
  (LastMarket /\ last.err = ErrPositionLimit) =>
    /\ IAbs(ToInt(FAdd(OldPosition.Size, SignedAmount))) > PositionSizeLimit
    /\ ~FLt(FAbs(FAdd(OldPosition.Size, SignedAmount)), FAbs(OldPosition.Size))

====
